---- MODULE Spec2Model ----
(***************************************************************************)
(* Room membership and event fan-out of the acknowledgment-based           *)
(* collaboration server (src/unnamed/part_000, lines 181-571).             *)
(*                                                                         *)
(* State of the server process: the two registries `rooms` and             *)
(* `userSocketMap`, plus the part of the socket.io transport the handlers  *)
(* act on: which sockets are connected, which adapter rooms each socket is *)
(* subscribed to (socket.join / socket.leave / cleanup on close), and the  *)
(* sessions kept by the connection-state-recovery option the server        *)
(* enables.  Every handler runs to completion (single-threaded event       *)
(* loop), so one action is one handler run.                                *)
(*                                                                         *)
(* `ev`, `sent` and `ack` record the event handled last, the emissions of  *)
(* that handler run in program order, and the argument its acknowledgment  *)
(* callback was called with.                                               *)
(***************************************************************************)
EXTENDS Integers, Sequences, FiniteSets, TLC

\* ------------------------------------------------------------------ bounds
MaxSockets == 2

Sockets   == 1..MaxSockets
Rooms     == {"r1", "r2"}
Usernames == {"alice", "bob"}

\* A falsy / absent payload field (undefined, null, "").
Missing == ""
\* The null returned by getRoomForSocket.
NoRoom  == "null"

RoomInputs == Rooms \cup {Missing}
NameInputs == Usernames \cup {Missing}

\* Disconnect reasons: one the transport can recover from, one it cannot.
Reasons == {"transport close", "client namespace disconnect"}
RECOVERABLE_DISCONNECT_REASONS == {"transport close"}

VARIABLES
    rooms,          \* Map roomId -> Map socketId -> user, in insertion order
    userSocketMap,  \* Map socketId -> user
    connected,      \* sockets whose connection handler ran and that are open
    closed,         \* sockets whose transport has closed
    subs,           \* adapter rooms of each socket (besides its own id)
    sessions,       \* persisted sessions: socket id -> rooms to restore
    gotOffset,      \* the client of the socket holds a packet offset
    ev,             \* the event handled last
    sent,           \* emissions of the last handler run, in order
    ack,            \* argument of the acknowledgment callback of that run
    reply,          \* acknowledgment packet that run returned to the requester
    inbox,          \* code-update packets each socket's client has received
    backlog,        \* code-update packets stored for each persisted session
    changes,        \* number of code-change events handled so far
    cl              \* the browser client under observation

vars == <<rooms, userSocketMap, connected, closed, subs, sessions, gotOffset,
          ev, sent, ack, reply, inbox, backlog, changes, cl>>

\* --------------------------------------------------------- Map operations
\* A JavaScript Map is kept as the sequence of its entries in insertion
\* order.  `rooms` entries are [id, users]; a room's entries are the user
\* objects, keyed by their id field.

Range(s) == {s[i] : i \in DOMAIN s}

\* rooms.has(roomId)
RoomsHas(rs, roomId) == \E i \in DOMAIN rs : rs[i].id = roomId

\* rooms.get(roomId) when present
RoomsGet(rs, roomId) ==
    LET i == CHOOSE i \in DOMAIN rs : rs[i].id = roomId IN rs[i].users

\* rooms.delete(roomId)
RoomsDelete(rs, roomId) == SelectSeq(rs, LAMBDA e : e.id # roomId)

\* rooms.set(roomId, new Map()) for an absent roomId
RoomsCreate(rs, roomId) == Append(rs, [id |-> roomId, users |-> <<>>])

\* the effect on `rooms` of mutating the Map object stored under roomId
RoomsPut(rs, roomId, users) ==
    [i \in DOMAIN rs |-> IF rs[i].id = roomId
                           THEN [id |-> roomId, users |-> users]
                           ELSE rs[i]]

\* room.has(socketId)
UsersHas(users, id) == \E i \in DOMAIN users : users[i].id = id

\* room.get(socketId) when present
UsersGet(users, id) ==
    LET i == CHOOSE i \in DOMAIN users : users[i].id = id IN users[i]

\* room.delete(socketId)
UsersDelete(users, id) == SelectSeq(users, LAMBDA u : u.id # id)

\* room.set(socketId, user): in place for a present key, appended otherwise
UsersSet(users, id, user) ==
    IF UsersHas(users, id)
      THEN [i \in DOMAIN users |-> IF users[i].id = id THEN user ELSE users[i]]
      ELSE Append(users, user)

\* userSocketMap.set(socketId, user)
RegistrySet(m, id, user) ==
    [x \in DOMAIN m \cup {id} |-> IF x = id THEN user ELSE m[x]]

\* userSocketMap.delete(socketId)
RegistryDelete(m, id) == [x \in DOMAIN m \ {id} |-> m[x]]

\* ------------------------------------------------------- helper functions
getUsersInRoom(rs, roomId) ==
    IF RoomsHas(rs, roomId) THEN RoomsGet(rs, roomId) ELSE <<>>

getRoomForSocket(rs, socketId) ==
    IF \E i \in DOMAIN rs : UsersHas(rs[i].users, socketId)
      THEN LET i == CHOOSE i \in DOMAIN rs :
                      /\ UsersHas(rs[i].users, socketId)
                      /\ \A j \in 1..(i-1) : ~UsersHas(rs[j].users, socketId)
           IN rs[i].id
      ELSE NoRoom

\* ------------------------------------------------------------- transport
\* socket.to(room): the open sockets subscribed to room, except the sender
SocketTo(sb, open, room, sender) ==
    {x \in open : room \in sb[x]} \ {sender}

\* io.to(room): the open sockets subscribed to room
IoTo(sb, open, room) == {x \in open : room \in sb[x]}

\* socket.emit: the socket itself
SocketEmit(sender) == {sender}

Emission(event, to, id, username, roomId, users) ==
    [event |-> event, to |-> to, id |-> id, username |-> username,
     roomId |-> roomId, users |-> users]

NoAck == [kind |-> "none"]
ErrorAck(msg) == [kind |-> "error", error |-> msg]
SuccessAck(roomId, users, id) ==
    [kind |-> "success", roomId |-> roomId, users |-> users, yourId |-> id]

Event(kind, id, roomId, username, result, left, leftUsername) ==
    [kind |-> kind, id |-> id, roomId |-> roomId, username |-> username,
     result |-> result, left |-> left, leftUsername |-> leftUsername]

\* a client holds an offset once any packet has reached it
Offsets(off, out) ==
    [x \in Sockets |-> off[x] \/ \E i \in DOMAIN out : x \in out[i].to]

\* the browser client before its page has opened a socket: no socket id,
\* no cached identity (currentUser), an empty member list (users)
\* readyState, reconnecting, attempts, viaReconnect, mtimer and mdelay are the
\* Manager's connection state and backoff; timers counts the pending
\* setTimeout callbacks of the connect_error listener, tries the connection
\* attempts made, fails the connect_error events seen, failed whether
\* reconnect_failed was emitted, hfirst/hprev/hlast the delays the listener
\* computed on its first, previous and last run
ClientInit ==
    [phase |-> "idle", sock |-> 0, old |-> 0, roomId |-> Missing,
     username |-> Missing, status |-> "initial", users |-> <<>>,
     prod |-> FALSE, readyState |-> "closed", reconnecting |-> FALSE,
     attempts |-> 0, viaReconnect |-> FALSE, mtimer |-> FALSE, mdelay |-> 0,
     timers |-> 0, tries |-> 0, fails |-> 0, failed |-> FALSE,
     hfirst |-> 0, hprev |-> 0, hlast |-> 0]

\* ------------------------------------------------------------------- Init
Init ==
    /\ rooms = <<>>
    /\ userSocketMap = <<>>
    /\ connected = {}
    /\ closed = {}
    /\ subs = [x \in Sockets |-> {}]
    /\ sessions = <<>>
    /\ gotOffset = [x \in Sockets |-> FALSE]
    /\ ev = Event("init", 0, Missing, Missing, "none", NoRoom, Missing)
    /\ sent = <<>>
    /\ ack = NoAck
    /\ reply = NoAck
    /\ inbox = [x \in Sockets |-> <<>>]
    /\ backlog = [x \in Sockets |-> <<>>]
    /\ changes = 0
    /\ cl = ClientInit

\* io.on("connection"): a new socket with a fresh id
onConnection(c) ==
    /\ c \notin connected /\ c \notin closed
    /\ connected' = connected \cup {c}
    /\ ev' = Event("connect", c, Missing, Missing, "none", NoRoom, Missing)
    /\ sent' = <<>>
    /\ ack' = NoAck
    /\ reply' = NoAck
    /\ UNCHANGED <<rooms, userSocketMap, closed, subs, sessions, gotOffset,
                   inbox, backlog, changes>>

Connect(c) == onConnection(c) /\ UNCHANGED cl

\* --------------------------------------------------- join-request handler
\* variant: only the username is validated, a missing room id is accepted
InvalidRequest_NameOnly(roomId, username) == username = Missing

\* variant: only the room id is validated, a missing username is accepted
InvalidRequest_RoomOnly(roomId, username) == roomId = Missing

\* if (!roomId || !username)
InvalidRequest(roomId, username) == roomId = Missing \/ username = Missing

\* variant: no uniqueness scan, as in a join without acknowledgment
existingUser_NoScan(rs, roomId, username, id) == FALSE

\* variant: the scan does not exclude the requesting socket
existingUser_AnyHolder(rs, roomId, username, id) ==
    \E u \in Range(getUsersInRoom(rs, roomId)) : u.username = username

\* variant: the self-exclusion of the scan is inverted
existingUser_SelfOnly(rs, roomId, username, id) ==
    \E u \in Range(getUsersInRoom(rs, roomId)) :
        u.username = username /\ u.id = id

\* the duplicate-username scan of the target room (a user object or none)
existingUser(rs, roomId, username, id) ==
    \E u \in Range(getUsersInRoom(rs, roomId)) :
        u.username = username /\ u.id # id

\* socket.leave(room) / socket.join(room) on the adapter
SocketLeave(sb, id, room) == [sb EXCEPT ![id] = @ \ {room}]
SocketJoin(sb, id, room)  == [sb EXCEPT ![id] = @ \cup {room}]

\* variant: the implicit leave keeps a room it has emptied
LeaveExisting_KeepEmpty(rs, currentRoom, id) ==
    IF currentRoom # NoRoom /\ RoomsHas(rs, currentRoom)
      THEN RoomsPut(rs, currentRoom, UsersDelete(RoomsGet(rs, currentRoom), id))
      ELSE rs

\* variant: the join does not remove the connection from its old room
LeaveExisting_Skip(rs, currentRoom, id) == rs

\* "Leave any existing room": the registry side
\*   roomUsers.delete(socket.id); if (roomUsers.size === 0) rooms.delete(..)
LeaveExisting(rs, currentRoom, id) ==
    IF currentRoom # NoRoom /\ RoomsHas(rs, currentRoom)
      THEN LET roomUsers == UsersDelete(RoomsGet(rs, currentRoom), id)
           IN IF Len(roomUsers) = 0
                THEN RoomsDelete(rs, currentRoom)
                ELSE RoomsPut(rs, currentRoom, roomUsers)
      ELSE rs

\* variant: the implicit leave notifies nobody
LeaveNotice_Silent(rs, reg, sb, open, currentRoom, id) == <<>>

\* the user-left emission of the implicit leave (none when the room was
\* deleted); sb is the adapter after socket.leave(currentRoom)
LeaveNotice(rs, reg, sb, open, currentRoom, id) ==
    IF /\ currentRoom # NoRoom
       /\ RoomsHas(rs, currentRoom)
       /\ Len(UsersDelete(RoomsGet(rs, currentRoom), id)) # 0
      THEN << Emission("user-left",
                       SocketTo(sb, open, currentRoom, id), id,
                       IF id \in DOMAIN reg THEN reg[id].username ELSE Missing,
                       Missing, <<>>) >>
      ELSE <<>>

\* the user object built by the handler (joinedAt, a timestamp, is left out)
NewUser(id, username, roomId) ==
    [id |-> id, username |-> username, roomId |-> roomId]

\* "Initialize room if it doesn't exist" and rooms.get(roomId).set(id, user)
CommitRoom(rs, roomId, user) ==
    LET rs1 == IF RoomsHas(rs, roomId) THEN rs ELSE RoomsCreate(rs, roomId)
    IN RoomsPut(rs1, roomId, UsersSet(RoomsGet(rs1, roomId), user.id, user))

\* variant: the snapshot is taken before the requester is inserted
usersInRoom_Early(before, after, roomId) == getUsersInRoom(before, roomId)

\* const usersInRoom = getUsersInRoom(roomId), taken after the commit
usersInRoom(before, after, roomId) == getUsersInRoom(after, roomId)

\* recipients of the join-accepted and user-joined emissions
AcceptedTo(sb, open, roomId, id) == SocketEmit(id)
JoinedTo(sb, open, roomId, id)   == SocketTo(sb, open, roomId, id)

\* socket.on("join-request", (data, callback = () => {}) => ...); withAck
\* tells whether the request carried an acknowledgment callback: without
\* one the default no-op is what the handler calls and nothing is returned
\* the catch branch: socket.emit("error", ..) when a call of the callback
\* has thrown
Caught(c, thrown) ==
    IF thrown
      THEN << Emission("error", SocketEmit(c), c, Missing, Missing, <<>>) >>
      ELSE <<>>

\* the handler; thrown says that calling the callback raises (the second
\* argument the client sent is not a function)
onJoinRequestWith(c, roomId, username, withAck, thrown) ==
    /\ c \in connected
    /\ IF InvalidRequest(roomId, username) THEN
          /\ ev' = Event("join", c, roomId, username, "invalid",
                         NoRoom, Missing)
          /\ sent' = Caught(c, thrown)
          /\ ack' = IF thrown THEN NoAck
                    ELSE ErrorAck("Room ID and username are required")
          /\ gotOffset' = Offsets(gotOffset, sent')
          /\ UNCHANGED <<rooms, userSocketMap, subs>>
       ELSE IF existingUser(rooms, roomId, username, c) THEN
          /\ ev' = Event("join", c, roomId, username, "conflict",
                         NoRoom, Missing)
          /\ sent' = << Emission("username_exists", SocketEmit(c), c,
                                 username, Missing, <<>>) >>
                      \o Caught(c, thrown)
          /\ ack' = IF thrown THEN NoAck
                    ELSE ErrorAck("Username is already taken in this room")
          /\ gotOffset' = Offsets(gotOffset, sent')
          /\ UNCHANGED <<rooms, userSocketMap, subs>>
       ELSE
          LET currentRoom == getRoomForSocket(rooms, c)
              subs1  == IF currentRoom # NoRoom
                          THEN SocketLeave(subs, c, currentRoom) ELSE subs
              rooms1 == LeaveExisting(rooms, currentRoom, c)
              left   == LeaveNotice(rooms, userSocketMap, subs1, connected,
                                    currentRoom, c)
              subs2  == SocketJoin(subs1, c, roomId)
              user   == NewUser(c, username, roomId)
              rooms2 == CommitRoom(rooms1, roomId, user)
              users  == usersInRoom(rooms1, rooms2, roomId)
          IN
          /\ rooms' = rooms2
          /\ userSocketMap' = RegistrySet(userSocketMap, c, user)
          /\ subs' = subs2
          /\ sent' = left \o
                << Emission("join-accepted",
                            AcceptedTo(subs2, connected, roomId, c),
                            c, username, roomId, users),
                   Emission("user-joined",
                            JoinedTo(subs2, connected, roomId, c),
                            c, username, roomId, <<>>) >>
                \o Caught(c, thrown)
          /\ ack' = IF thrown THEN NoAck ELSE SuccessAck(roomId, users, c)
          /\ ev' = Event("join", c, roomId, username, "committed",
                         currentRoom,
                         IF currentRoom # NoRoom
                           THEN UsersGet(RoomsGet(rooms, currentRoom), c).username
                           ELSE Missing)
          /\ gotOffset' = Offsets(gotOffset, sent')
    /\ reply' = IF withAck THEN ack' ELSE NoAck
    /\ UNCHANGED <<connected, closed, sessions, inbox, backlog, changes>>

\* the handler called with a callback function or with none
onJoinRequest(c, roomId, username, withAck) ==
    onJoinRequestWith(c, roomId, username, withAck, FALSE)

\* a join-request emitted with an acknowledgment callback
JoinRequest(c, roomId, username) ==
    onJoinRequest(c, roomId, username, TRUE) /\ UNCHANGED cl

\* ----------------------------------------------------- disconnect handler
\* the three early returns: no room, no room object, no user object
DisconnectFinds(rs, id) ==
    LET roomId == getRoomForSocket(rs, id)
    IN /\ roomId # NoRoom
       /\ RoomsHas(rs, roomId)
       /\ UsersHas(RoomsGet(rs, roomId), id)

\* variant: the disconnect handler leaves the rooms map as it is
DisconnectRooms_Stale(rs, id) == rs

\* variant: the disconnect handler keeps a room it has emptied
DisconnectRooms_KeepEmpty(rs, id) ==
    IF DisconnectFinds(rs, id)
      THEN LET roomId == getRoomForSocket(rs, id)
           IN RoomsPut(rs, roomId, UsersDelete(RoomsGet(rs, roomId), id))
      ELSE rs

\* room.delete(socket.id); if (room.size === 0) rooms.delete(roomId)
DisconnectRooms(rs, id) ==
    IF DisconnectFinds(rs, id)
      THEN LET roomId == getRoomForSocket(rs, id)
               room   == UsersDelete(RoomsGet(rs, roomId), id)
           IN IF Len(room) = 0 THEN RoomsDelete(rs, roomId)
                               ELSE RoomsPut(rs, roomId, room)
      ELSE rs

\* variant: the disconnect handler leaves the registry entry behind
DisconnectRegistry_Forget(reg, rs, id) == reg

\* userSocketMap.delete(socket.id)
DisconnectRegistry(reg, rs, id) ==
    IF DisconnectFinds(rs, id) THEN RegistryDelete(reg, id) ELSE reg

\* variant: user-left is emitted before the membership lookup has returned
DisconnectNotice_Unchecked(rs, sb, open, id) ==
    << Emission("user-left", IoTo(sb, open, getRoomForSocket(rs, id)), id,
                Missing, Missing, <<>>) >>

\* io.to(roomId).emit("user-left", ..) when members remain; sb and open are
\* the adapter after the closing socket has been removed from its rooms
DisconnectNotice(rs, sb, open, id) ==
    IF DisconnectFinds(rs, id)
      THEN LET roomId == getRoomForSocket(rs, id)
               user   == UsersGet(RoomsGet(rs, roomId), id)
               room   == UsersDelete(RoomsGet(rs, roomId), id)
           IN IF Len(room) = 0 THEN <<>>
              ELSE << Emission("user-left", IoTo(sb, open, roomId), id,
                               user.username, Missing, <<>>) >>
      ELSE <<>>

\* connectionStateRecovery: the session of a recoverable close is kept
PersistSession(ss, sb, id, reason) ==
    IF reason \in RECOVERABLE_DISCONNECT_REASONS
      THEN [x \in DOMAIN ss \cup {id} |-> IF x = id THEN sb[id] ELSE ss[x]]
      ELSE ss

onDisconnect(c, reason) ==
    /\ c \in connected
    /\ LET open1 == connected \ {c}
           subs1 == [subs EXCEPT ![c] = {}]
       IN
       /\ sessions' = PersistSession(sessions, subs, c, reason)
       /\ connected' = open1
       /\ closed' = closed \cup {c}
       /\ subs' = subs1
       /\ rooms' = DisconnectRooms(rooms, c)
       /\ userSocketMap' = DisconnectRegistry(userSocketMap, rooms, c)
       /\ sent' = DisconnectNotice(rooms, subs1, open1, c)
       /\ ack' = NoAck
       /\ ev' = Event("disconnect", c, Missing, Missing,
                      IF DisconnectFinds(rooms, c) THEN "removed" ELSE "noop",
                      getRoomForSocket(rooms, c),
                      IF DisconnectFinds(rooms, c)
                        THEN UsersGet(RoomsGet(rooms,
                                 getRoomForSocket(rooms, c)), c).username
                        ELSE Missing)
       /\ gotOffset' = Offsets(gotOffset, sent')
       /\ reply' = NoAck
       /\ UNCHANGED <<inbox, backlog, changes>>

Disconnect(c, reason) == onDisconnect(c, reason) /\ UNCHANGED cl

\* a client reconnects with its session id and offset inside
\* maxDisconnectionDuration: the socket comes back under the same id,
\* subscribed to the rooms of its session, the packets stored for the
\* session are transmitted to it, and the connection handler runs
\* the packets missed while the socket was closed, as sent again on recovery
Replay(missed) ==
    [i \in DOMAIN missed |-> [missed[i] EXCEPT !.replayed = TRUE]]

onRecover(c) ==
    /\ c \in closed
    /\ c \in DOMAIN sessions
    /\ gotOffset[c]
    /\ connected' = connected \cup {c}
    /\ closed' = closed \ {c}
    /\ subs' = [subs EXCEPT ![c] = sessions[c]]
    /\ sessions' = [x \in DOMAIN sessions \ {c} |-> sessions[x]]
    /\ ev' = Event("recover", c, Missing, Missing, "none", NoRoom, Missing)
    /\ sent' = <<>>
    /\ ack' = NoAck
    /\ reply' = NoAck
    /\ inbox' = [inbox EXCEPT ![c] = @ \o Replay(backlog[c])]
    /\ backlog' = [backlog EXCEPT ![c] = <<>>]
    /\ UNCHANGED <<rooms, userSocketMap, gotOffset, changes>>

Recover(c) == onRecover(c) /\ UNCHANGED cl

\* maxDisconnectionDuration elapses for a persisted session
SessionExpire(c) ==
    /\ c \in DOMAIN sessions
    /\ sessions' = [x \in DOMAIN sessions \ {c} |-> sessions[x]]
    /\ ev' = Event("expire", c, Missing, Missing, "none", NoRoom, Missing)
    /\ sent' = <<>>
    /\ ack' = NoAck
    /\ reply' = NoAck
    /\ backlog' = [backlog EXCEPT ![c] = <<>>]
    /\ UNCHANGED <<rooms, userSocketMap, connected, closed, subs, gotOffset,
                   inbox, changes, cl>>

Next ==
    \/ \E c \in Sockets : Connect(c)
    \/ \E c \in Sockets, roomId \in RoomInputs, username \in NameInputs :
          JoinRequest(c, roomId, username)
    \/ \E c \in Sockets, reason \in Reasons : Disconnect(c, reason)
    \/ \E c \in Sockets : Recover(c)
    \/ \E c \in Sockets : SessionExpire(c)

Spec == Init /\ [][Next]_vars

\* ------------------------------------------------------------ vocabulary
\* connections recorded as members of room r in a directory rs
MembersIn(rs, r) == {u.id : u \in Range(getUsersInRoom(rs, r))}
Members(r) == MembersIn(rooms, r)

\* the username under which c is recorded in room r of directory rs
NameIn(rs, r, c) == UsersGet(getUsersInRoom(rs, r), c).username

\* every room id that occurs in the directory or can be requested
RoomIds == Rooms \cup {rooms[i].id : i \in DOMAIN rooms}

\* positions of the emissions of one event name in an emission log
Positions(out, event) == {i \in DOMAIN out : out[i].event = event}

JoinCommitted == ev.kind = "join" /\ ev.result = "committed"

TypeOK ==
    /\ connected \subseteq Sockets
    /\ closed \subseteq Sockets
    /\ connected \cap closed = {}
    /\ DOMAIN userSocketMap \subseteq Sockets
    /\ DOMAIN sessions \subseteq closed

\* ------------------------------------------------------------------ C1
\* C1: after every handled event, a connection c is a key of rooms[R] iff
\* userSocketMap maps c to a user whose roomId is R; no connection is in
\* one structure and absent from the other.
RegistryMatchesDirectory ==
    /\ \A c \in Sockets, r \in RoomIds :
          (c \in Members(r)) <=>
          (c \in DOMAIN userSocketMap /\ userSocketMap[c].roomId = r)
    /\ DOMAIN userSocketMap = UNION {Members(r) : r \in RoomIds}

\* a member remains recorded after another connection was removed
RegistryMatchesDirectory_Witness ==
    /\ ev.kind = "disconnect" /\ ev.result = "removed"
    /\ \E c \in DOMAIN userSocketMap : c \in Members(userSocketMap[c].roomId)

\* ------------------------------------------------------------------ C2
\* C2: in every reachable state and every room, no two distinct member
\* connections hold the same username.
UsernamesDistinct ==
    \A i \in DOMAIN rooms : \A j, k \in DOMAIN rooms[i].users :
        j # k => /\ rooms[i].users[j].id # rooms[i].users[k].id
                 /\ rooms[i].users[j].username # rooms[i].users[k].username

\* a room switch has just brought a second member into a room
UsernamesDistinct_Witness ==
    /\ JoinCommitted
    /\ ev.left \notin {NoRoom, ev.roomId}
    /\ Cardinality(Members(ev.roomId)) >= 2

\* ------------------------------------------------------------------ C3
\* C3: the rooms map has an entry for R iff R has at least one member;
\* an entry never has an empty member map, also right after the implicit
\* leave of a join or a disconnect emptied a room.
RoomExistsIffMembers ==
    /\ \A i \in DOMAIN rooms : Len(rooms[i].users) > 0
    /\ \A i, j \in DOMAIN rooms : i # j => rooms[i].id # rooms[j].id
    /\ \A r \in RoomIds :
          RoomsHas(rooms, r) <=>
          \E c \in DOMAIN userSocketMap : userSocketMap[c].roomId = r

\* the implicit leave of a join removed the last member of a room
RoomExistsIffMembers_Witness ==
    /\ JoinCommitted
    /\ ev.left \notin {NoRoom, ev.roomId}
    /\ ~RoomsHas(rooms, ev.left)
    /\ RoomsHas(rooms, ev.roomId)

\* ------------------------------------------------------------------ C4
\* C4: each connection is a member of at most one room, and after a
\* successful join it is a member of exactly the room just joined.
AtMostOneRoom ==
    /\ \A c \in Sockets :
          Cardinality({i \in DOMAIN rooms : UsersHas(rooms[i].users, c)}) <= 1
    /\ JoinCommitted =>
          {r \in RoomIds : ev.id \in Members(r)} = {ev.roomId}

\* a connection that was in one room has joined another one, and the room
\* it came from still exists
AtMostOneRoom_Witness ==
    /\ JoinCommitted
    /\ ev.left \notin {NoRoom, ev.roomId}
    /\ RoomsHas(rooms, ev.left)
    /\ ev.id \in Members(ev.roomId)

\* ------------------------------------------------------------------ C5
\* C5: a join-request for (R, u) from c while a different connection holds
\* u in R is answered with an error acknowledgment, and the rooms map and
\* the registry are the same after the request as before it.
ConflictLeavesMembership ==
    [][ (/\ ev'.kind = "join"
         /\ ev'.roomId # Missing /\ ev'.username # Missing
         /\ \E d \in MembersIn(rooms, ev'.roomId) \ {ev'.id} :
               NameIn(rooms, ev'.roomId, d) = ev'.username)
        => /\ ack'.kind = "error"
           /\ rooms' = rooms
           /\ userSocketMap' = userSocketMap ]_vars

\* a conflicting request of a connection that is itself a member of a room
ConflictLeavesMembership_Witness ==
    /\ ev.kind = "join" /\ ev.result = "conflict"
    /\ ack.kind = "error"
    /\ ev.id \in DOMAIN userSocketMap
    /\ \E d \in Members(ev.roomId) \ {ev.id} :
          NameIn(rooms, ev.roomId, d) = ev.username

\* ------------------------------------------------------------------ C6
\* C6: a join-request with a missing or empty roomId or username gets an
\* error acknowledgment, changes neither rooms, userSocketMap nor the
\* adapter subscriptions, and nothing is sent to any other connection.
InvalidJoinChangesNothing ==
    [][ (/\ ev'.kind = "join"
         /\ (ev'.roomId = Missing \/ ev'.username = Missing))
        => /\ ack'.kind = "error"
           /\ rooms' = rooms
           /\ userSocketMap' = userSocketMap
           /\ subs' = subs
           /\ \A i \in DOMAIN sent' : sent'[i].to \subseteq {ev'.id} ]_vars

\* a request with a room id but no username, made while rooms exist
InvalidJoinChangesNothing_Witness ==
    /\ ev.kind = "join" /\ ev.result = "invalid"
    /\ ev.roomId # Missing /\ ev.username = Missing
    /\ ack.kind = "error"
    /\ RoomsHas(rooms, ev.roomId)

\* ------------------------------------------------------------------ C7
\* C7: when a member of room X successfully joins a different room Y, it is
\* removed from X; X is deleted if that empties it, otherwise every
\* remaining member of X is sent one user-left with the connection id and
\* the username it held in X, emitted before the emissions of the join;
\* the departing connection does not receive it; then it is a member of Y.
SwitchLeavesThenJoins ==
    [][ \A X \in Rooms :
        (/\ ev'.kind = "join" /\ ev'.result = "committed"
         /\ ev'.roomId # X
         /\ ev'.id \in MembersIn(rooms, X))
        => LET c    == ev'.id
               rem  == MembersIn(rooms, X) \ {c}
               left == Positions(sent', "user-left")
           IN /\ MembersIn(rooms', X) = rem
              /\ rem = {} => ~RoomsHas(rooms', X) /\ left = {}
              /\ rem # {} =>
                    /\ left = {1}
                    /\ rem \subseteq sent'[1].to
                    /\ c \notin sent'[1].to
                    /\ sent'[1].id = c
                    /\ sent'[1].username = NameIn(rooms, X, c)
                    /\ \A i \in Positions(sent', "join-accepted")
                              \cup Positions(sent', "user-joined") : i > 1
              /\ c \in MembersIn(rooms', ev'.roomId) ]_vars

\* a switch that left a member behind, who was notified
SwitchLeavesThenJoins_Witness ==
    /\ JoinCommitted
    /\ ev.left \notin {NoRoom, ev.roomId}
    /\ Members(ev.left) # {}
    /\ Len(sent) = 3
    /\ sent[1].event = "user-left"
    /\ Members(ev.left) \subseteq sent[1].to

\* ------------------------------------------------------------------ C8
\* C8: on a successful join, join-accepted goes to the requester and to
\* nobody else, and user-joined goes to every member of the target room
\* other than the requester, never to the requester and never to a member
\* of another room.
JoinNotifiesRoomOnly ==
    JoinCommitted =>
        /\ Positions(sent, "join-accepted") # {}
        /\ \A i \in Positions(sent, "join-accepted") : sent[i].to = {ev.id}
        /\ Positions(sent, "user-joined") # {}
        /\ \A i \in Positions(sent, "user-joined") :
              /\ Members(ev.roomId) \ {ev.id} \subseteq sent[i].to
              /\ ev.id \notin sent[i].to
              /\ \A x \in sent[i].to :
                    \A r \in RoomIds \ {ev.roomId} : x \notin Members(r)

\* ------------------------------------------------------------------ C9
\* C9: the users list of a successful join's acknowledgment, and of its
\* join-accepted event, is exactly the set of users that are members of
\* the target room after the commit: the requester under its new username
\* and every other member, each once, and nobody else.
SnapshotIsMembership ==
    JoinCommitted =>
        /\ ack.kind = "success"
        /\ Range(ack.users) =
              {userSocketMap[c] : c \in {d \in DOMAIN userSocketMap :
                                     userSocketMap[d].roomId = ev.roomId}}
        /\ {u.id : u \in Range(ack.users)} = Members(ev.roomId)
        /\ Len(ack.users) = Cardinality(Members(ev.roomId))
        /\ \E u \in Range(ack.users) :
              u.id = ev.id /\ u.username = ev.username
        /\ \A i \in Positions(sent, "join-accepted") :
              sent[i].users = ack.users

\* a snapshot of two users taken by a join that also left another room
SnapshotIsMembership_Witness ==
    /\ JoinCommitted
    /\ ack.kind = "success"
    /\ Len(ack.users) >= 2
    /\ ev.left # NoRoom

\* ----------------------------------------------------------------- C10
\* C10: when a member connection disconnects its membership is removed;
\* if members remain, each gets exactly one user-left with the departing
\* id and username and the room keeps exactly the remaining members; if
\* it was the last member the room entry is deleted and nothing is sent.
DisconnectRemovesAndNotifies ==
    [][ \A R \in Rooms :
        (/\ ev'.kind = "disconnect"
         /\ ev'.id \in MembersIn(rooms, R))
        => LET c   == ev'.id
               rem == MembersIn(rooms, R) \ {c}
           IN /\ MembersIn(rooms', R) = rem
              /\ c \notin DOMAIN userSocketMap'
              /\ \A r \in Rooms : c \notin MembersIn(rooms', r)
              /\ rem # {} =>
                    /\ RoomsHas(rooms', R)
                    /\ \A m \in rem :
                          Cardinality({i \in DOMAIN sent' : m \in sent'[i].to}) = 1
                    /\ \A i \in DOMAIN sent' :
                          /\ sent'[i].event = "user-left"
                          /\ sent'[i].id = c
                          /\ sent'[i].username = NameIn(rooms, R, c)
              /\ rem = {} => ~RoomsHas(rooms', R) /\ sent' = <<>> ]_vars

\* a disconnect that left a member behind, who was notified
DisconnectRemovesAndNotifies_Witness ==
    /\ ev.kind = "disconnect" /\ ev.result = "removed"
    /\ Members(ev.left) # {}
    /\ Len(sent) = 1
    /\ Members(ev.left) \subseteq sent[1].to

\* ---------------------------------------------------------------- router
\* code-change events handled in one run
MaxChanges == 2

\* one code-update packet; n stands for its code/timestamp payload, members
\* records who was in the rooms map for roomId when it was broadcast
Packet(sender, roomId, n, members) ==
    [sender |-> sender, roomId |-> roomId, n |-> n, members |-> members,
     replayed |-> FALSE]

\* variant: a delivered packet is put in front of the ones delivered before
Deliver_Front(box, to, p) ==
    [x \in Sockets |-> IF x \in to THEN <<p>> \o box[x] ELSE box[x]]

\* emit to a set of sockets: each receives the packet after the earlier ones
Deliver(box, to, p) ==
    [x \in Sockets |-> IF x \in to THEN Append(box[x], p) ELSE box[x]]

\* the adapter keeps a broadcast for every persisted session subscribed to
\* the room, to send it when the session is recovered
Persist(log, ss, roomId, p) ==
    [x \in Sockets |->
        IF x \in DOMAIN ss /\ roomId \in ss[x]
          THEN Append(log[x], p) ELSE log[x]]

\* socket.on("code-change")
CodeChange(c, roomId) ==
    /\ c \in connected
    /\ changes < MaxChanges
    /\ IF roomId = Missing
         THEN /\ sent' = << Emission("error", SocketEmit(c), c, Missing,
                                     Missing, <<>>) >>
              /\ ev' = Event("code-change", c, roomId, Missing, "error",
                             NoRoom, Missing)
              /\ UNCHANGED <<inbox, backlog, changes>>
         ELSE LET to == SocketTo(subs, connected, roomId, c)
                  p  == Packet(c, roomId, changes + 1, Members(roomId))
              IN /\ sent' = << Emission("code-update", to, c, Missing,
                                        roomId, <<>>) >>
                 /\ inbox' = Deliver(inbox, to, p)
                 /\ backlog' = Persist(backlog, sessions, roomId, p)
                 /\ changes' = changes + 1
                 /\ ev' = Event("code-change", c, roomId, Missing,
                                "broadcast", NoRoom, Missing)
    /\ gotOffset' = Offsets(gotOffset, sent')
    /\ ack' = NoAck
    /\ reply' = NoAck
    /\ UNCHANGED <<rooms, userSocketMap, connected, closed, subs, sessions,
                   cl>>

\* a "leave-room" event arrives: the connection registers no listener for it
LeaveRoom(c, roomId) ==
    /\ c \in connected
    /\ ev' = Event("leave-room", c, roomId, Missing, "ignored", NoRoom,
                   Missing)
    /\ sent' = <<>>
    /\ ack' = NoAck
    /\ reply' = NoAck
    /\ UNCHANGED <<rooms, userSocketMap, connected, closed, subs, sessions,
                   gotOffset, inbox, backlog, changes, cl>>

\* a join-request emitted without an acknowledgment callback
JoinRequestNoAck(c, roomId, username) ==
    onJoinRequest(c, roomId, username, FALSE) /\ UNCHANGED cl

\* the membership engine with explicit leave requests
NextLeave ==
    \/ Next
    \/ \E c \in Sockets, roomId \in Rooms : LeaveRoom(c, roomId)

SpecLeave == Init /\ [][NextLeave]_vars

\* a join-request whose second argument is a value that cannot be called
JoinRequestBadAck(c, roomId, username) ==
    onJoinRequestWith(c, roomId, username, FALSE, TRUE) /\ UNCHANGED cl

\* the membership engine with requests whose callback raises
NextFail ==
    \/ Next
    \/ \E c \in Sockets, roomId \in RoomInputs, username \in NameInputs :
          JoinRequestBadAck(c, roomId, username)

SpecFail == Init /\ [][NextFail]_vars

\* the membership engine with requests sent with and without a callback
NextAck ==
    \/ Next
    \/ \E c \in Sockets, roomId \in RoomInputs, username \in NameInputs :
          JoinRequestNoAck(c, roomId, username)

SpecAck == Init /\ [][NextAck]_vars

\* one room, its members editing, leaving and coming back
NextRouter ==
    \/ \E c \in Sockets : Connect(c)
    \/ \E c \in Sockets, username \in Usernames :
          JoinRequest(c, "r1", username)
    \/ \E c \in Sockets, roomId \in {"r1", Missing} : CodeChange(c, roomId)
    \/ \E c \in Sockets, reason \in Reasons : Disconnect(c, reason)
    \/ \E c \in Sockets : Recover(c)
    \/ \E c \in Sockets : SessionExpire(c)

SpecRouter == Init /\ [][NextRouter]_vars

\* connection 1 editing in one room that the other connections join while
\* connection 2 drops and is recovered
NextOrder ==
    \/ \E c \in Sockets : Connect(c)
    \/ \E c \in Sockets, username \in Usernames :
          JoinRequest(c, "r1", username)
    \/ CodeChange(1, "r1")
    \/ Disconnect(2, "transport close")
    \/ Recover(2)

SpecOrder == Init /\ [][NextOrder]_vars

\* ---------------------------------------------------------------- client
\* the event names the provider registers a listener for
Subscribed ==
    {"username-exists", "join-accepted", "join-success", "user-disconnected",
     "request-drawing", "sync-drawing", "code-update"}

\* the names of the events of an emission log that reach socket c, in order
Received(out, c) ==
    LET mine == SelectSeq(out, LAMBDA e : c \in e.to)
    IN [i \in DOMAIN mine |-> mine[i].event]

\* the status after the listeners have run for the received events:
\* handleUsernameExist sets "initial", handleJoiningAccept sets "joined",
\* an event without a listener changes nothing
RECURSIVE Dispatch(_, _)
Dispatch(status, names) ==
    IF names = <<>> THEN status
    ELSE Dispatch(
           IF Head(names) \notin Subscribed THEN status
           ELSE IF Head(names) = "username-exists" THEN "initial"
           ELSE IF Head(names) \in {"join-accepted", "join-success"}
             THEN "joined"
           ELSE status,
           Tail(names))

\* the socket ids the browser client has used
ClientSockets == {cl.sock, cl.old}

\* the emissions of a log that reach socket c, in order
Arrived(out, c) == SelectSeq(out, LAMBDA e : c \in e.to)

\* the member list after the listeners have run for the arrived emissions:
\* handleJoiningAccept replaces it by the payload's users, handleUserLeft
\* filters the leaver out by username, an event without a listener changes
\* nothing
RECURSIVE UsersAfter(_, _)
UsersAfter(users, arrived) ==
    IF arrived = <<>> THEN users
    ELSE UsersAfter(
           IF Head(arrived).event \notin Subscribed THEN users
           ELSE IF Head(arrived).event \in {"join-accepted", "join-success"}
             THEN Head(arrived).users
           ELSE IF Head(arrived).event = "user-disconnected"
             THEN SelectSeq(users,
                            LAMBDA u : u.username # Head(arrived).username)
           ELSE users,
           Tail(arrived))

\* the page opens its socket (autoConnect / socket.connect())
ClientOpen(c) ==
    /\ cl.phase = "idle"
    /\ onConnection(c)
    /\ cl' = [cl EXCEPT !.phase = "open", !.sock = c]

\* the editor page caches the identity and emits join-request with a callback
ClientJoin(roomId, username) ==
    /\ cl.phase = "open"
    /\ onJoinRequest(cl.sock, roomId, username, TRUE)
    /\ cl' = [cl EXCEPT !.phase = IF ack'.kind = "success"
                                   THEN "joined" ELSE "failed",
                        !.roomId = roomId, !.username = username,
                        !.status = IF ack'.kind = "success"
                                     THEN "joined" ELSE "connection_failed",
                        !.users = UsersAfter(cl.users,
                                             Arrived(sent', cl.sock))]

\* the client loses its transport and starts reconnecting; the server has
\* not seen the connection close yet
ClientDrop ==
    /\ cl.phase = "joined"
    /\ cl' = [cl EXCEPT !.phase = "reconnecting", !.old = cl.sock]
    /\ UNCHANGED <<rooms, userSocketMap, connected, closed, subs, sessions,
                   gotOffset, ev, sent, ack, reply, inbox, backlog, changes>>

\* the server finds the lost connection closed (transport close or missed
\* pings) and runs its disconnect handler
OldConnectionCloses ==
    /\ cl.phase \in {"reconnecting", "connected", "rejoined"}
    /\ cl.phase = "reconnecting" \/ cl.sock # cl.old
    /\ onDisconnect(cl.old, "transport close")
    /\ UNCHANGED cl

\* a reconnection attempt succeeds: the persisted session is recovered under
\* the old id if the server has one, otherwise a new connection is made
ClientReconnect(d) ==
    /\ cl.phase = "reconnecting"
    /\ IF cl.old \in DOMAIN sessions /\ gotOffset[cl.old]
         THEN d = cl.old /\ onRecover(d)
         ELSE onConnection(d)
    /\ cl' = [cl EXCEPT !.phase = "connected", !.sock = d]

\* handleConnect: join-request with the cached identity, without a callback
ClientRejoin ==
    /\ cl.phase = "connected"
    /\ cl.username # Missing /\ cl.roomId # Missing
    /\ onJoinRequest(cl.sock, cl.roomId, cl.username, FALSE)
    /\ cl' = [cl EXCEPT !.phase = "rejoined",
                        !.status = Dispatch(cl.status,
                                            Received(sent', cl.sock)),
                        !.users = UsersAfter(cl.users,
                                             Arrived(sent', cl.sock))]

\* one browser client next to connections of other clients
NextRejoin ==
    \/ \E c \in Sockets : ClientOpen(c)
    \/ \E roomId \in Rooms, username \in Usernames :
          ClientJoin(roomId, username)
    \/ ClientDrop
    \/ OldConnectionCloses
    \/ \E d \in Sockets : ClientReconnect(d)
    \/ ClientRejoin
    \/ \E c \in Sockets \ ClientSockets : Connect(c)
    \/ \E c \in Sockets \ ClientSockets, roomId \in Rooms,
          username \in Usernames : JoinRequest(c, roomId, username)
    \/ \E c \in Sockets \ ClientSockets, reason \in Reasons :
          Disconnect(c, reason)
    \/ \E c \in Sockets : SessionExpire(c)

SpecRejoin == Init /\ [][NextRejoin]_vars

\* another connection's join-request is processed and what it sends to the
\* client's socket is handled by the client's listeners
PeerJoin(c, roomId, username) ==
    /\ c \notin ClientSockets
    /\ onJoinRequest(c, roomId, username, TRUE)
    /\ cl' = [cl EXCEPT !.users = UsersAfter(cl.users,
                                             Arrived(sent', cl.sock))]

\* another connection's disconnect is processed, likewise
PeerDisconnect(c, reason) ==
    /\ c \notin ClientSockets
    /\ onDisconnect(c, reason)
    /\ cl' = [cl EXCEPT !.users = UsersAfter(cl.users,
                                             Arrived(sent', cl.sock))]

\* one browser client in a room that other connections join and leave
NextView ==
    \/ \E c \in Sockets : ClientOpen(c)
    \/ \E roomId \in Rooms, username \in Usernames :
          ClientJoin(roomId, username)
    \/ \E c \in Sockets \ ClientSockets : Connect(c)
    \/ \E c \in Sockets, roomId \in Rooms, username \in Usernames :
          PeerJoin(c, roomId, username)
    \/ \E c \in Sockets, reason \in Reasons : PeerDisconnect(c, reason)

SpecView == Init /\ [][NextView]_vars

\* the keys of the context value the provider hands to the pages
ContextKeys ==
    {"socket", "isConnected", "error", "reconnect", "emitCodeChange",
     "notifyFileOpened", "updateFileContent", "notifyFileSaved",
     "onFileOpened", "onFileUpdate", "onFileSaved"}

\* the editor page is left: its cleanup calls the leaveRoom it took from the
\* context value; if the key is missing the call raises and nothing is
\* emitted, otherwise leave-room is emitted (no listener on the server) and
\* the socket is disconnected
ClientExit ==
    /\ cl.phase = "joined"
    /\ cl' = [cl EXCEPT !.phase = "exited"]
    /\ IF "leaveRoom" \in ContextKeys
         THEN onDisconnect(cl.sock, "client namespace disconnect")
         ELSE UNCHANGED <<rooms, userSocketMap, connected, closed, subs,
                          sessions, gotOffset, ev, sent, ack, reply, inbox,
                          backlog, changes>>

\* the browser client with its page being left
NextExit ==
    \/ NextRejoin
    \/ ClientExit

SpecExit == Init /\ [][NextExit]_vars

\* ---------------------------------------------------------- reconnection
\* connection attempts made in one run
MaxTries == 8

reconnectionDelay == 1000
reconnectionDelayMax == 10000

\* reconnectionAttempts: isProduction ? 10 : 5
reconnectionAttempts(prod) == IF prod THEN 10 ELSE 5

\* values of Math.random() * 10 the backoff may draw
Rands == {0, 5, 8}

Min(a, b) == IF a <= b THEN a ELSE b

\* Backoff.duration() of the Manager: reconnectionDelay * 2^attempts, moved
\* by up to half of itself either way, capped by reconnectionDelayMax
duration(attempts, r) ==
    LET ms        == reconnectionDelay * (2 ^ attempts)
        deviation == (r * ms) \div 20
    IN Min(IF r % 2 = 0 THEN ms - deviation ELSE ms + deviation,
           reconnectionDelayMax)

\* Math.min(socket.io._reconnectionAttempts * 1000, 10000): the option value,
\* not the number of attempts made
connectErrorDelay(m) ==
    Min(reconnectionAttempts(m.prod) * 1000, 10000)

\* socket.on("connect_error"): setTimeout(() => socket.connect(), delay)
onConnectError(m) ==
    [m EXCEPT !.timers = @ + 1,
              !.fails = @ + 1,
              !.hfirst = IF m.fails = 0 THEN connectErrorDelay(m) ELSE @,
              !.hprev = m.hlast,
              !.hlast = connectErrorDelay(m)]

\* Manager.reconnect(): give up once the attempts are used up (the backoff is
\* reset), otherwise arm the timer of the next attempt
reconnect(m, r) ==
    IF m.reconnecting THEN m
    ELSE IF m.attempts >= reconnectionAttempts(m.prod)
      THEN [m EXCEPT !.attempts = 0, !.failed = TRUE]
      ELSE [m EXCEPT !.mdelay = duration(m.attempts, r),
                     !.attempts = @ + 1,
                     !.reconnecting = TRUE,
                     !.mtimer = TRUE]

\* Manager.maybeReconnectOnOpen(), after an open that was not an attempt of a
\* running reconnection
maybeReconnectOnOpen(m, r) ==
    IF ~m.reconnecting /\ m.attempts = 0 THEN reconnect(m, r) ELSE m

\* the page loads while the server cannot be reached: io() opens the
\* connection (autoConnect)
OpenUnreachable(prod) ==
    /\ cl.phase = "idle"
    /\ cl' = [cl EXCEPT !.phase = "offline", !.prod = prod,
                        !.readyState = "opening", !.tries = 1]
    /\ UNCHANGED <<rooms, userSocketMap, connected, closed, subs, sessions,
                   gotOffset, ev, sent, ack, reply, inbox, backlog, changes>>

\* a connection attempt fails: the Manager emits error (the socket's
\* connect_error listener runs) and then continues its reconnection
AttemptFails(r) ==
    /\ cl.phase = "offline"
    /\ cl.readyState = "opening"
    /\ LET m1 == onConnectError([cl EXCEPT !.readyState = "closed"])
       IN cl' = IF cl.viaReconnect
                  THEN reconnect([m1 EXCEPT !.reconnecting = FALSE], r)
                  ELSE maybeReconnectOnOpen(m1, r)
    /\ UNCHANGED <<rooms, userSocketMap, connected, closed, subs, sessions,
                   gotOffset, ev, sent, ack, reply, inbox, backlog, changes>>

\* the Manager's reconnection timer fires: the next attempt starts
ManagerTimer ==
    /\ cl.phase = "offline"
    /\ cl.mtimer
    /\ cl.tries < MaxTries
    /\ cl' = [cl EXCEPT !.mtimer = FALSE, !.readyState = "opening",
                        !.viaReconnect = TRUE, !.tries = @ + 1]
    /\ UNCHANGED <<rooms, userSocketMap, connected, closed, subs, sessions,
                   gotOffset, ev, sent, ack, reply, inbox, backlog, changes>>

\* a timer of the connect_error listener fires: socket.connect() opens the
\* Manager unless it is reconnecting or already opening
HandlerTimer ==
    /\ cl.phase = "offline"
    /\ cl.timers > 0
    /\ cl.tries < MaxTries
    /\ cl' = IF ~cl.reconnecting /\ cl.readyState = "closed"
               THEN [cl EXCEPT !.timers = @ - 1, !.readyState = "opening",
                               !.viaReconnect = FALSE, !.tries = @ + 1]
               ELSE [cl EXCEPT !.timers = @ - 1]
    /\ UNCHANGED <<rooms, userSocketMap, connected, closed, subs, sessions,
                   gotOffset, ev, sent, ack, reply, inbox, backlog, changes>>

NextBackoff ==
    \/ \E prod \in BOOLEAN : OpenUnreachable(prod)
    \/ \E r \in Rands : AttemptFails(r)
    \/ ManagerTimer
    \/ HandlerTimer

SpecBackoff == Init /\ [][NextBackoff]_vars

\* --------------------------------------------- fire-and-forget server
\* the first server of the file keeps only `rooms`; it has no registry, no
\* uniqueness scan, no implicit leave and no session recovery
\* getRoomId(socketId): the first room, in insertion order, that has the key
getRoomId(rs, socketId) == getRoomForSocket(rs, socketId)

\* { id: socket.id, username: username || "Anonymous", joinedAt }
LenientUser(id, username) ==
    [id |-> id,
     username |-> IF username = Missing THEN "Anonymous" ELSE username]

\* socket.on("join-request") of the fire-and-forget server
LenientJoinRequest(c, roomId, username) ==
    /\ c \in connected
    /\ IF roomId = Missing
         THEN /\ sent' = << Emission("join-error", SocketEmit(c), c,
                                     Missing, Missing, <<>>) >>
              /\ ev' = Event("join", c, roomId, username, "invalid",
                             NoRoom, Missing)
              /\ UNCHANGED <<rooms, subs>>
         ELSE LET subs1  == SocketJoin(subs, c, roomId)
                  rooms1 == CommitRoom(rooms, roomId,
                                       LenientUser(c, username))
              IN /\ subs' = subs1
                 /\ rooms' = rooms1
                 /\ sent' = << Emission("join-success", SocketEmit(c), c,
                                        username, roomId,
                                        getUsersInRoom(rooms1, roomId)),
                               Emission("user-joined",
                                        SocketTo(subs1, connected, roomId, c),
                                        c, username, roomId,
                                        getUsersInRoom(rooms1, roomId)) >>
                 /\ ev' = Event("join", c, roomId, username, "committed",
                                NoRoom, Missing)
    /\ gotOffset' = Offsets(gotOffset, sent')
    /\ ack' = NoAck
    /\ reply' = NoAck
    /\ UNCHANGED <<userSocketMap, connected, closed, sessions, inbox,
                   backlog, changes, cl>>

\* socket.on("disconnect") of the fire-and-forget server
LenientDisconnect(c) ==
    /\ c \in connected
    /\ LET roomId == getRoomId(rooms, c)
           open1  == connected \ {c}
           subs1  == [subs EXCEPT ![c] = {}]
           room   == UsersDelete(getUsersInRoom(rooms, roomId), c)
       IN
       /\ connected' = open1
       /\ closed' = closed \cup {c}
       /\ subs' = subs1
       /\ rooms' = IF roomId = NoRoom THEN rooms
                   ELSE IF Len(room) = 0 THEN RoomsDelete(rooms, roomId)
                   ELSE RoomsPut(rooms, roomId, room)
       /\ sent' = IF roomId # NoRoom /\ Len(room) # 0
                    THEN << Emission("user-left", IoTo(subs1, open1, roomId),
                                     c, NameIn(rooms, roomId, c), Missing,
                                     <<>>) >>
                    ELSE <<>>
       /\ ev' = Event("disconnect", c, Missing, Missing,
                      IF roomId # NoRoom THEN "removed" ELSE "noop",
                      roomId, Missing)
    /\ gotOffset' = Offsets(gotOffset, sent')
    /\ ack' = NoAck
    /\ reply' = NoAck
    /\ UNCHANGED <<userSocketMap, sessions, inbox, backlog, changes, cl>>

NextLenient ==
    \/ \E c \in Sockets : Connect(c)
    \/ \E c \in Sockets, roomId \in RoomInputs, username \in NameInputs :
          LenientJoinRequest(c, roomId, username)
    \/ \E c \in Sockets : LenientDisconnect(c)

SpecLenient == Init /\ [][NextLenient]_vars

\* ----------------------------------------------------------------- C11
\* C11: the disconnect handler is idempotent.  Run for a connection that
\* has no room (also a second run for a connection that came back without
\* re-joining) it changes neither rooms nor the registry and sends nothing.
\* Run right after that connection's join it removes every trace of the
\* connection and leaves all other memberships alone, and for a connection
\* that was in no room before the join the result is exactly the state
\* before the join.
DisconnectIdempotent ==
    [][ /\ (ev'.kind = "disconnect"
              /\ \A r \in Rooms : ev'.id \notin MembersIn(rooms, r))
           => /\ rooms' = rooms
              /\ userSocketMap' = userSocketMap
              /\ sent' = <<>>
        /\ (ev'.kind = "disconnect"
              /\ ev.kind = "join" /\ ev.result = "committed"
              /\ ev.id = ev'.id)
           => /\ \A r \in Rooms :
                    /\ MembersIn(rooms', r) = MembersIn(rooms, r) \ {ev'.id}
                    /\ \A d \in MembersIn(rooms', r) :
                          NameIn(rooms', r, d) = NameIn(rooms, r, d)
              /\ \A i \in DOMAIN rooms' : Len(rooms'[i].users) > 0
              /\ userSocketMap' =
                    [x \in DOMAIN userSocketMap \ {ev'.id} |-> userSocketMap[x]]
        /\ (ev'.kind = "join" /\ ev'.result = "committed"
              /\ \A r \in Rooms : ev'.id \notin MembersIn(rooms, r))
           => /\ DisconnectRooms(rooms', ev'.id) = rooms
              /\ DisconnectRegistry(userSocketMap', rooms', ev'.id)
                    = userSocketMap ]_vars

\* a second disconnect of a connection that had come back subscribed to a
\* room without re-joining it: nothing to remove, nothing sent
DisconnectIdempotent_Witness ==
    /\ ev.kind = "disconnect" /\ ev.result = "noop"
    /\ ev.id \in DOMAIN sessions
    /\ sessions[ev.id] # {}
    /\ sent = <<>>
    /\ rooms # <<>>

\* ----------------------------------------------------------------- C14
\* C14: in every state the connections a broadcast addressed to room R is
\* delivered to (the open sockets subscribed to R) are exactly the
\* connections recorded as members of R in the rooms map.
SubscribersAreMembers ==
    \A r \in Rooms : IoTo(subs, connected, r) = Members(r)

\* ----------------------------------------------------------------- C12
\* C12: once the server has processed a leave-room event of a connection,
\* without any disconnect, that connection is a member of no room.
LeaveRoomRemovesMember ==
    ev.kind = "leave-room" => \A r \in Rooms : ev.id \notin Members(r)

\* ----------------------------------------------------------------- C13
\* C13: a code-update for a code-change that a member A sent to its own
\* room R reaches only members of R other than A, carries sender = A, and
\* reaches each of them at most once.
CodeUpdateToOtherMembersOnce ==
    \A x \in Sockets : \A i \in DOMAIN inbox[x] :
        inbox[x][i].sender \in inbox[x][i].members
        => /\ x # inbox[x][i].sender
           /\ x \in inbox[x][i].members
           /\ \A j \in DOMAIN inbox[x] :
                 inbox[x][j].n = inbox[x][i].n => j = i

\* ----------------------------------------------------------------- C15
\* C15: no connection ever holds a broadcast that was sent while it was not
\* a member of the room: nothing is kept for later and nothing is replayed,
\* also when the transport recovers a connection's state.
NoReplayToAbsent ==
    \A x \in Sockets : \A i \in DOMAIN inbox[x] :
        inbox[x][i].replayed => x \in inbox[x][i].members

\* ----------------------------------------------------------------- C20
\* C20: every processed join-request is answered to the requester with
\* exactly one acknowledgment: success iff the membership was committed,
\* error iff it was not; no request stays unanswered.
JoinAcknowledgedOnce ==
    ev.kind = "join"
    => /\ reply.kind \in {"success", "error"}
       /\ reply.kind = "success" <=> ev.result = "committed"

\* ----------------------------------------------------------------- C16
\* C16: two broadcasts of the same connection into the same room are held
\* by every connection that received both in the order they were sent.
SameOriginInOrder ==
    \A x \in Sockets : \A i, j \in DOMAIN inbox[x] :
        (/\ i < j
         /\ inbox[x][i].sender = inbox[x][j].sender
         /\ inbox[x][i].roomId = inbox[x][j].roomId)
        => inbox[x][i].n < inbox[x][j].n

\* a connection received one code-update live and a later one of the same
\* origin and room on recovery
SameOriginInOrder_Witness ==
    \E x \in Sockets : \E i, j \in DOMAIN inbox[x] :
        /\ i < j
        /\ inbox[x][i].sender = inbox[x][j].sender
        /\ inbox[x][i].roomId = inbox[x][j].roomId
        /\ ~inbox[x][i].replayed
        /\ inbox[x][j].replayed

\* ----------------------------------------------------------------- C17
\* C17: a client that was a member of room R as u and reconnected is a member
\* of R as u again once the server has processed its automatic join-request
\* and the close of its old connection, in whichever order the two were
\* processed, provided no other connection holds u in R.
RejoinRestoresMembership ==
    (/\ cl.phase = "rejoined"
     /\ cl.old = cl.sock \/ cl.old \notin connected
     /\ \A x \in Members(cl.roomId) \ {cl.sock} :
           NameIn(rooms, cl.roomId, x) # cl.username)
    => /\ cl.sock \in Members(cl.roomId)
       /\ NameIn(rooms, cl.roomId, cl.sock) = cl.username

\* ----------------------------------------------------------------- C18
\* C18: when every attempt fails the client gives up after the configured
\* number of reconnection attempts and stays disconnected: once
\* reconnect_failed was emitted no connection is being opened, none is
\* scheduled by the Manager, and no more than the first attempt plus
\* reconnectionAttempts attempts were ever made.
GivesUpForGood ==
    cl.failed
    => /\ cl.readyState = "closed"
       /\ ~cl.mtimer
       /\ cl.tries <= 1 + reconnectionAttempts(cl.prod)

\* ----------------------------------------------------------------- C19
\* C19: the delay computed by the connect_error listener never exceeds
\* reconnectionDelayMax, never shrinks from one failure to the next, and is
\* larger after a later failure than after the first one unless the first
\* was already at the cap.
HandlerDelayGrows ==
    cl.fails >= 2
    => /\ cl.hlast <= reconnectionDelayMax
       /\ cl.hprev <= cl.hlast
       /\ cl.hfirst < reconnectionDelayMax => cl.hlast > cl.hfirst

\* ----------------------------------------------------------------- C21
\* C21: a conflict rejection reaches the client: when the server has
\* rejected the client's automatic re-join as a username conflict, the
\* notification was sent to the client's connection only and the client's
\* status is "initial".
ConflictResetsStatus ==
    (/\ cl.phase = "rejoined"
     /\ ev.kind = "join" /\ ev.id = cl.sock /\ ev.result = "conflict")
    => /\ \A i \in DOMAIN sent : sent[i].to = {cl.sock}
       /\ cl.status = "initial"

\* ----------------------------------------------------------------- C22
\* C22: in whatever order a connection's join-requests and its disconnect
\* were processed, a connection whose disconnect has been processed is
\* recorded as a member of no room and has no registry entry, in that state
\* and in every later state in which it is still disconnected, and the four
\* membership invariants (C1-C4) hold in every state.
DisconnectedNeverMember ==
    /\ \A c \in Sockets \ connected :
          /\ \A r \in RoomIds : c \notin Members(r)
          /\ c \notin DOMAIN userSocketMap
    /\ RegistryMatchesDirectory
    /\ UsernamesDistinct
    /\ RoomExistsIffMembers
    /\ AtMostOneRoom

\* a member's disconnect has just been processed while another member stays
DisconnectedNeverMember_Witness ==
    /\ ev.kind = "disconnect" /\ ev.result = "removed"
    /\ ev.id \in closed
    /\ \E r \in Rooms : Members(r) # {}

\* ----------------------------------------------------------------- C23
\* C23: a join-request is all-or-nothing: when the handler has failed and
\* reported the failure through its catch branch, rooms, the registry and
\* the connection's room subscriptions are as before the request and nothing
\* but the failure report was sent.
FailedJoinChangesNothing ==
    [][ (/\ ev'.kind = "join"
         /\ \E i \in DOMAIN sent' : sent'[i].event = "error")
        => /\ rooms' = rooms
           /\ userSocketMap' = userSocketMap
           /\ subs' = subs
           /\ \A i \in DOMAIN sent' : sent'[i].event = "error" ]_vars

\* ----------------------------------------------------------------- C24
\* C24: a join-request that must be rejected (a field is missing, or another
\* connection holds the username in the target room) and comes from a
\* member of a room X leaves the requester a member of X under its previous
\* username and subscribed as before, and no user-left is sent.
RejectedJoinKeepsRoom ==
    [][ (/\ ev'.kind = "join"
         /\ getRoomForSocket(rooms, ev'.id) # NoRoom
         /\ \/ ev'.roomId = Missing
            \/ ev'.username = Missing
            \/ \E d \in MembersIn(rooms, ev'.roomId) \ {ev'.id} :
                  NameIn(rooms, ev'.roomId, d) = ev'.username)
        => /\ ev'.result \in {"invalid", "conflict"}
           /\ ev'.id \in MembersIn(rooms', getRoomForSocket(rooms, ev'.id))
           /\ NameIn(rooms', getRoomForSocket(rooms, ev'.id), ev'.id)
                 = NameIn(rooms, getRoomForSocket(rooms, ev'.id), ev'.id)
           /\ subs'[ev'.id] = subs[ev'.id]
           /\ Positions(sent', "user-left") = {} ]_vars

\* a member of one room was refused the username another connection holds
\* in a different room, and is still a member of its own room next to
\* someone who would have been told of its leaving
RejectedJoinKeepsRoom_Witness ==
    /\ ev.kind = "join" /\ ev.result = "conflict"
    /\ getRoomForSocket(rooms, ev.id) \notin {NoRoom, ev.roomId}
    /\ sent # <<>>
    /\ \A i \in DOMAIN sent : sent[i].event = "username_exists"

LenientDisconnectCleans ==
    /\ \A c \in closed : \A i \in DOMAIN rooms : ~UsersHas(rooms[i].users, c)
    /\ \A i \in DOMAIN rooms :
          \E j \in DOMAIN rooms[i].users : rooms[i].users[j].id \in connected

\* ----------------------------------------------------------------- C27
\* C27: a code-update reaches a member of room R only if the connection that
\* sent the code-change was itself a member of R when it was broadcast; a
\* connection outside R cannot reach R's members by naming R.
OutsiderCannotBroadcast ==
    \A x \in Sockets : \A i \in DOMAIN inbox[x] :
        x \in inbox[x][i].members
        => inbox[x][i].sender \in inbox[x][i].members

\* ----------------------------------------------------------------- C28
\* C28: after the editor page was left while the client was in a room, the
\* client's connection is not both still connected and still recorded as a
\* member of that room.
ExitLeavesRoom ==
    cl.phase = "exited"
    => ~(cl.sock \in connected /\ cl.sock \in Members(cl.roomId))

\* ----------------------------------------------------------------- C29
\* C29: when the server has processed another connection's join to, or
\* disconnect from, the room of a joined client and the client has handled
\* what was sent to it, the client's users list names exactly the
\* connections the server records as members of the room.
ClientListTracksMembers ==
    (/\ cl.phase = "joined"
     /\ cl.sock \in Members(cl.roomId)
     /\ ev.kind \in {"join", "disconnect"}
     /\ ev.id # cl.sock)
    => {cl.users[i].id : i \in DOMAIN cl.users} = Members(cl.roomId)

====
